---- MODULE Spec2Model ----
(***************************************************************************)
(* Hotel Last Resort (app.py): a Flask application whose routes run fixed  *)
(* read-only SQL statements through query_db and derive sums, counts and   *)
(* averages from the returned rows.                                        *)
(*                                                                         *)
(* The database is a record of tables, each table a set of rows (records). *)
(* Only the columns that a join, a filter, a grouping, an ordering or a    *)
(* derived statistic reads are kept; display-only columns are left out.    *)
(* Text columns that a query orders by are modelled by their collation     *)
(* rank (an integer); room_status.status is kept as text.  A date-time is  *)
(* a number of ticks, TicksPerDay ticks to a calendar day.                 *)
(***************************************************************************)
EXTENDS Integers, Sequences, FiniteSets, TLC

\* ---------------------------------------------------------------- bounds
MaxRooms == 2
MaxRes == 2
MaxStay == 2
MaxDays == 11
TicksPerDay == 2
MaxAmount == 2

\* LIMIT 10 of the my_reservations statement
Limit == 10

\* SQL NULL / Python None in an integer column (ids, ranks, amounts are >= 0)
NULL == -1

\* ------------------------------------------------------- generic helpers
RECURSIVE SumSeq(_)
SumSeq(s) == IF s = <<>> THEN 0 ELSE Head(s) + SumSeq(Tail(s))

RECURSIVE ProdSeq(_)
ProdSeq(s) == IF s = <<>> THEN 1 ELSE Head(s) * ProdSeq(Tail(s))

Min2(a, b) == IF a <= b THEN a ELSE b

LexLess(a, b) ==
    \E i \in 1..Len(a) : a[i] < b[i] /\ \A j \in 1..(i - 1) : a[j] = b[j]

LexLeq(a, b) == a = b \/ LexLess(a, b)

\* ORDER BY: the rows of set S as a sequence, ascending in the key k[row] (a
\* tuple of integers).  Rows with equal keys come in some fixed order.
RECURSIVE OrderBy(_, _)
OrderBy(S, k) ==
    IF S = {} THEN <<>>
    ELSE LET m == CHOOSE x \in S : \A y \in S : LexLeq(k[x], k[y])
         IN  <<m>> \o OrderBy(S \ {m}, k)

MapSeq(s, f) == [i \in 1..Len(s) |-> f[s[i]]]

\* LIMIT n
LimitRows(s, n) == SubSeq(s, 1, Min2(n, Len(s)))

\* COUNT(DISTINCT x) / len(set(...)) over a sequence of values
Distinct(s) == {s[i] : i \in 1..Len(s)}

\* date(x): the calendar day of a date-time
DateOf(t) == t \div TicksPerDay

\* ------------------------------------------------------------- database
EmptyDB ==
    [building |-> {}, room |-> {}, room_type |-> {}, room_status |-> {},
     meeting_space |-> {}, reservation |-> {}, reservation_room |-> {},
     event_reservation |-> {}, billing |-> {}, customer |-> {},
     staff |-> {}, staff_card_assignment |-> {}, readers |-> {},
     reading_info |-> {}, customer_requests |-> {}, transaction |-> {}]

\* ------------------------------------------------------- SQL aggregates
\* a = b in an ON clause: never true of a NULL
SqlEq(a, b) == a # NULL /\ b # NULL /\ a = b

RECURSIVE SumOver(_, _)
SumOver(S, v) ==
    IF S = {} THEN 0
    ELSE LET x == CHOOSE y \in S : TRUE IN v[x] + SumOver(S \ {x}, v)

\* SUM(col) over the join rows S of one group: NULLs are skipped, and the
\* sum of no non-NULL value is NULL.
SqlSum(S, v) ==
    LET nn == {x \in S : v[x] # NULL}
    IN  IF nn = {} THEN NULL ELSE SumOver(nn, v)

\* ------------------------------------------------------------- queries
\* Each operator is one SQL statement of app.py evaluated on database d:
\* the join as a set of tuples of rows, the grouping as the set of group
\* keys, the ordering by OrderBy.

\* Query 5 (account, employee_customer_cards): revenue by customer
RevenueByCustomer(d) ==
    LET J == {p \in d.billing \X d.customer : SqlEq(p[2].customerId, p[1].customerId)}
        G == {p[2].customerId : p \in J}
        grp(g) == {p \in J : p[2].customerId = g}
        row(g) == [customerId |-> g,
                   bills |-> Cardinality(grp(g)),
                   total_billed |-> SqlSum(grp(g), [p \in grp(g) |-> p[1].totalAmount])]
        R == {row(g) : g \in G}
    IN  OrderBy(R, [r \in R |-> <<0 - r.total_billed>>])

\* guest_rooms: available sleeping rooms (not meeting spaces)
AvailableRooms(d) ==
    LET J == {p \in d.room \X d.building \X d.room_type \X d.room_status :
                /\ SqlEq(p[2].buildingId, p[1].buildingId)
                /\ SqlEq(p[3].roomTypeId, p[1].roomTypeId)
                /\ SqlEq(p[4].roomStatusId, p[1].roomStatusId)
                /\ ~ \E ms \in d.meeting_space : SqlEq(ms.roomId, p[1].roomId)
                /\ p[4].status = "available"}
        S == OrderBy(J, [p \in J |-> <<p[2].buildingName, p[1].roomNumber>>])
    IN  MapSeq(S, [p \in J |-> [roomId |-> p[1].roomId,
                                roomNumber |-> p[1].roomNumber,
                                buildingName |-> p[2].buildingName,
                                roomType |-> p[3].roomType,
                                room_status |-> p[4].status]])

\* meeting_spaces: meeting spaces with their room and building
MeetingSpaces(d) ==
    LET J == {p \in d.meeting_space \X d.room \X d.building :
                /\ SqlEq(p[2].roomId, p[1].roomId)
                /\ SqlEq(p[3].buildingId, p[2].buildingId)}
        S == OrderBy(J, [p \in J |-> <<p[1].spaceType, p[2].roomNumber>>])
    IN  MapSeq(S, [p \in J |-> [roomId |-> p[1].roomId,
                                roomNumber |-> p[2].roomNumber,
                                buildingName |-> p[3].buildingName,
                                spaceType |-> p[1].spaceType]])

\* Query 1: reservations per check-in day, as a set of grouped rows
ReservationsPerDay(d) ==
    {[day |-> g,
      num_reservations |-> Cardinality({r \in d.reservation : DateOf(r.startDateTime) = g})] :
        g \in {DateOf(r.startDateTime) : r \in d.reservation}}

\* ORDER BY day DESC
RecentKey_Ascending(r) == <<r.day>>

RecentKey(r) == <<0 - r.day>>

\* my_reservations: ORDER BY day DESC LIMIT 10
RecentReservations(d) ==
    LET R == ReservationsPerDay(d)
    IN  LimitRows(OrderBy(R, [r \in R |-> RecentKey(r)]), Limit)

\* employee_reservations_page: ORDER BY day
AllReservations(d) ==
    LET R == ReservationsPerDay(d)
    IN  OrderBy(R, [r \in R |-> <<r.day>>])

\* book: SELECT DISTINCT roomType, 'room'
RoomTypeOptions(d) ==
    LET R == {[roomType |-> rt.roomType, type_category |-> "room"] : rt \in d.room_type}
    IN  OrderBy(R, [r \in R |-> <<r.roomType>>])

\* book: SELECT DISTINCT spaceType AS roomType, 'meeting'
MeetingTypeOptions(d) ==
    LET R == {[roomType |-> ms.spaceType, type_category |-> "meeting"] : ms \in d.meeting_space}
    IN  OrderBy(R, [r \in R |-> <<r.roomType>>])

\* staff_roster
StaffList(d) ==
    OrderBy(d.staff, [s \in d.staff |-> <<s.department>>])

\* Query 8 (card_management): swipes by department and reader location
StaffSwipes(d) ==
    LET J == {p \in d.reading_info \X d.staff_card_assignment \X d.staff \X d.readers :
                /\ SqlEq(p[2].staffcardId, p[1].staffcardId)
                /\ SqlEq(p[3].staffId, p[2].staffId)
                /\ SqlEq(p[4].readersId, p[1].readerID)}
        G == {<<p[3].department, p[4].location>> : p \in J}
        R == {[department |-> g[1], location |-> g[2],
               staff_swipes |-> Cardinality({p \in J : <<p[3].department, p[4].location>> = g})] :
                g \in G}
    IN  OrderBy(R, [r \in R |-> <<0 - r.staff_swipes>>])

\* Query 7 (employee_rooms): open customer requests by deposit status
OpenRequests(d) ==
    LET J == {cr \in d.customer_requests : cr.resolved = "N"}
        R == {[depositStatus |-> g,
               open_requests |-> Cardinality({cr \in J : cr.depositStatus = g})] :
                g \in {cr.depositStatus : cr \in J}}
    IN  OrderBy(R, [r \in R |-> <<0 - r.open_requests>>])

\* julianday(r.endDateTime) - julianday(r.startDateTime), in ticks
StayLength_EndOnly(r) == r.endDateTime

StayLength(r) == r.endDateTime - r.startDateTime

\* Query 3 (employee_rooms): average stay length by room type.  AVG of
\* julianday(end) - julianday(start) is the exact fraction num / den days.
AvgStay(d) ==
    LET J == {p \in d.room_type \X d.room \X d.reservation_room \X d.reservation :
                /\ SqlEq(p[2].roomTypeId, p[1].roomTypeId)
                /\ SqlEq(p[3].roomId, p[2].roomId)
                /\ SqlEq(p[4].reservationId, p[3].reservationId)}
        G == {p[1].roomType : p \in J}
        grp(g) == {p \in J : p[1].roomType = g}
        row(g) == [roomType |-> g,
                   avg_nights |->
                       [num |-> SumOver(grp(g), [p \in grp(g) |-> StayLength(p[4])]),
                        den |-> Cardinality(grp(g)) * TicksPerDay],
                   num_room_bookings |-> Cardinality(grp(g))]
        R == {row(g) : g \in G}
        \* a common multiple of the denominators, to compare the averages
        M == ProdSeq(OrderBy({r.avg_nights.den : r \in R},
                             [x \in {r.avg_nights.den : r \in R} |-> <<x>>]))
    IN  OrderBy(R, [r \in R |-> <<0 - (r.avg_nights.num * (M \div r.avg_nights.den))>>])

\* Query 6 (employee_rooms): events per meeting-space type.  The LEFT JOIN
\* of event on er.eventId cannot change COUNT(DISTINCT er.eventId).
EventsBySpaceType(d) ==
    LET R == {[spaceType |-> g,
               events_count |-> Cardinality(
                   {er.eventId : er \in
                       {e \in d.event_reservation :
                           /\ e.eventId # NULL
                           /\ \E ms \in d.meeting_space, rr \in d.reservation_room :
                                 /\ ms.spaceType = g
                                 /\ SqlEq(rr.roomId, ms.roomId)
                                 /\ SqlEq(e.reservationId, rr.reservationId)}})] :
                g \in {ms.spaceType : ms \in d.meeting_space}}
    IN  OrderBy(R, [r \in R |-> <<r.spaceType>>])

\* Query 2 (employee_room_list): room counts by building name and status
RoomCounts(d) ==
    LET J == {p \in d.building \X d.room \X d.room_status :
                /\ SqlEq(p[2].buildingId, p[1].buildingId)
                /\ SqlEq(p[3].roomStatusId, p[2].roomStatusId)}
        G == {<<p[1].buildingName, p[3].status>> : p \in J}
        R == {[buildingName |-> g[1], room_status |-> g[2],
               num_rooms |-> Cardinality({p \in J : <<p[1].buildingName, p[3].status>> = g})] :
                g \in G}
    IN  OrderBy(R, [r \in R |-> <<r.buildingName, 0 - r.num_rooms>>])

\* LEFT JOIN reservation_room ... WHERE rr.roomId IS NULL: no row of
\* reservation_room joins room rm
NeverBooked_NoFilter(rm, d) == TRUE

NeverBooked(rm, d) == ~ \E rr \in d.reservation_room : SqlEq(rr.roomId, rm.roomId)

\* Query 9 (rooms_never_reserved)
NeverReserved(d) ==
    LET J == {p \in d.building \X d.room :
                /\ SqlEq(p[2].buildingId, p[1].buildingId)
                /\ NeverBooked(p[2], d)}
        S == OrderBy(J, [p \in J |-> <<p[1].buildingName, p[2].roomNumber>>])
    IN  MapSeq(S, [p \in J |-> [buildingName |-> p[1].buildingName,
                                roomNumber |-> p[2].roomNumber]])

\* ----------------------------------------------------- routes of app.py
StaticRoutes ==
    {"home", "signup", "profile", "confirmation", "management_login", "employee_login"}

QueryRoutes ==
    {"account", "guest_rooms", "meeting_spaces_page", "my_reservations", "book",
     "staff_roster", "card_management", "employee_rooms", "employee_customer_cards",
     "employee_room_list", "employee_reservations_page", "employee_revenue",
     "rooms_never_reserved"}

\* The statements a route hands to query_db, in order.  Every call passes
\* args=() and one=False.
QueriesOf(r) ==
    CASE r = "account" -> <<"revenue_by_customer">>
      [] r = "guest_rooms" -> <<"available_rooms">>
      [] r = "meeting_spaces_page" -> <<"meeting_spaces">>
      [] r = "my_reservations" -> <<"recent_reservations">>
      [] r = "book" -> <<"room_type_options", "meeting_type_options">>
      [] r = "staff_roster" -> <<"staff_list">>
      [] r = "card_management" -> <<"staff_swipes">>
      [] r = "employee_rooms" -> <<"open_requests", "avg_stay", "events_by_space_type">>
      [] r = "employee_customer_cards" -> <<"revenue_by_customer">>
      [] r = "employee_room_list" -> <<"room_counts">>
      [] r = "employee_reservations_page" -> <<"all_reservations">>
      [] r = "employee_revenue" -> <<"monthly_revenue">>
      [] r = "rooms_never_reserved" -> <<"never_reserved">>
      [] OTHER -> <<>>

OneOf(q) == FALSE

\* cursor.execute(query, args) on database d: the rows the statement
\* selects, or a database error.  Query 4 reads FROM transaction AS t: in
\* SQLite TRANSACTION is a keyword that is no identifier, so the statement
\* is a syntax error (sqlite3.OperationalError) whatever the table holds.
RunQuery(q, d) ==
    CASE q = "revenue_by_customer" -> [ok |-> TRUE, rows |-> RevenueByCustomer(d)]
      [] q = "available_rooms" -> [ok |-> TRUE, rows |-> AvailableRooms(d)]
      [] q = "meeting_spaces" -> [ok |-> TRUE, rows |-> MeetingSpaces(d)]
      [] q = "recent_reservations" -> [ok |-> TRUE, rows |-> RecentReservations(d)]
      [] q = "room_type_options" -> [ok |-> TRUE, rows |-> RoomTypeOptions(d)]
      [] q = "meeting_type_options" -> [ok |-> TRUE, rows |-> MeetingTypeOptions(d)]
      [] q = "staff_list" -> [ok |-> TRUE, rows |-> StaffList(d)]
      [] q = "staff_swipes" -> [ok |-> TRUE, rows |-> StaffSwipes(d)]
      [] q = "open_requests" -> [ok |-> TRUE, rows |-> OpenRequests(d)]
      [] q = "avg_stay" -> [ok |-> TRUE, rows |-> AvgStay(d)]
      [] q = "events_by_space_type" -> [ok |-> TRUE, rows |-> EventsBySpaceType(d)]
      [] q = "room_counts" -> [ok |-> TRUE, rows |-> RoomCounts(d)]
      [] q = "all_reservations" -> [ok |-> TRUE, rows |-> AllReservations(d)]
      [] q = "never_reserved" -> [ok |-> TRUE, rows |-> NeverReserved(d)]
      [] q = "monthly_revenue" -> [ok |-> FALSE, rows |-> <<>>]

\* Every statement is a SELECT and query_db never commits: executing one
\* leaves the database as it was.
DbAfterExecute_Deletes(q, d) == [d EXCEPT !.reservation = {}]

DbAfterExecute(q, d) == d

\* query_db's return value on success (line 25) and on a database error (line 28)
QueryDbReturn(rows, one) ==
    IF one THEN (IF rows # <<>> THEN rows[1] ELSE NULL) ELSE rows

EmptyResult(one) == IF one THEN NULL ELSE <<>>

\* ------------------------------------------- statistics in the route bodies
Column(rows, f) == [i \in 1..Len(rows) |-> rows[i][f]]

\* sum(r.get(f, 0) for r in rows): adding None to an int raises TypeError
PySum(vals) ==
    IF \E i \in 1..Len(vals) : vals[i] = NULL
    THEN [ok |-> FALSE, val |-> 0]
    ELSE [ok |-> TRUE, val |-> SumSeq(vals)]

\* len([x for x in vals if x]) for integer values
CountTruthy(vals) == Cardinality({i \in 1..Len(vals) : vals[i] # NULL /\ vals[i] # 0})

\* len(set(x for x in vals if x)) for text values (by collation rank)
CountDistinctTruthy(vals) == Cardinality(Distinct(vals) \ {NULL})

\* a / b: dividing by zero raises ZeroDivisionError
PyDiv(a, b) ==
    IF b = 0 THEN [ok |-> FALSE, num |-> 0, den |-> 1] ELSE [ok |-> TRUE, num |-> a, den |-> b]

\* total_reservations / total_days if total_days > 0 else 0
AvgPerDay_Unguarded(total, days) == PyDiv(total, days)

AvgPerDay(total, days) ==
    IF days > 0 THEN PyDiv(total, days) ELSE [ok |-> TRUE, num |-> 0, den |-> 1]

\* r.get('room_status') == 'available'
IsAvailable_Capitalised(x) == x.room_status = "Available"

IsAvailable(x) == x.room_status = "available"

Page(ctx) == [ok |-> TRUE, ctx |-> ctx]

Raises == [ok |-> FALSE, ctx |-> <<>>]

\* The body of route r after its query_db calls returned res (one entry per
\* call): the template context, or an exception raised while deriving it.
RouteBody(r, res) ==
    CASE r = "account" -> Page([reservations |-> res[1]])
      [] r = "guest_rooms" ->
            Page([available_rooms |-> res[1], total_rooms |-> Len(res[1])])
      [] r = "meeting_spaces_page" ->
            Page([meeting_spaces |-> res[1], total_spaces |-> Len(res[1])])
      [] r = "my_reservations" ->
            Page([reservations |-> res[1], total_reservations |-> Len(res[1])])
      [] r = "book" -> Page([all_types |-> res[1] \o res[2]])
      [] r = "staff_roster" ->
            Page([staff |-> res[1], total_staff |-> Len(res[1]),
                  active_staff |-> CountTruthy(Column(res[1], "isActive"))])
      [] r = "card_management" ->
            LET sw == PySum(Column(res[1], "staff_swipes"))
            IN  IF ~sw.ok THEN Raises
                ELSE Page([staff_cards |-> res[1], total_swipes |-> sw.val,
                           departments |-> CountDistinctTruthy(Column(res[1], "department")),
                           locations |-> CountDistinctTruthy(Column(res[1], "location"))])
      [] r = "employee_rooms" ->
            LET rq == PySum(Column(res[1], "open_requests"))
                bk == PySum(Column(res[2], "num_room_bookings"))
                ev == PySum(Column(res[3], "events_count"))
            IN  IF ~(rq.ok /\ bk.ok /\ ev.ok) THEN Raises
                ELSE Page([forum_posts |-> res[1], room_types |-> res[2],
                           meeting_spaces_events |-> res[3], total_requests |-> rq.val,
                           total_bookings |-> bk.val, total_events |-> ev.val])
      [] r = "employee_customer_cards" ->
            LET rv == PySum(Column(res[1], "total_billed"))
            IN  IF ~rv.ok THEN Raises
                ELSE Page([customer_cards |-> res[1], total_customers |-> Len(res[1]),
                           total_revenue |-> rv.val])
      [] r = "employee_room_list" ->
            LET tot == PySum(Column(res[1], "num_rooms"))
                av == PySum(Column(SelectSeq(res[1], IsAvailable),
                                   "num_rooms"))
            IN  IF ~(tot.ok /\ av.ok) THEN Raises
                ELSE Page([rooms |-> res[1], total_rooms |-> tot.val,
                           available_rooms |-> av.val])
      [] r = "employee_reservations_page" ->
            LET tot == PySum(Column(res[1], "num_reservations"))
                days == Len(res[1])
                avg == AvgPerDay(tot.val, days)
            IN  IF ~(tot.ok /\ avg.ok) THEN Raises
                ELSE Page([reservations |-> res[1], total_reservations |-> tot.val,
                           total_days |-> days,
                           avg_per_day |-> [num |-> avg.num, den |-> avg.den]])
      [] r = "employee_revenue" ->
            LET rv == PySum(Column(res[1], "total_revenue"))
                tx == PySum(Column(res[1], "num_tx"))
            IN  IF ~(rv.ok /\ tx.ok) THEN Raises
                ELSE Page([revenue |-> res[1], total_revenue |-> rv.val,
                           total_transactions |-> tx.val, months_tracked |-> Len(res[1])])
      [] r = "rooms_never_reserved" ->
            Page([rooms |-> res[1], total_unused |-> Len(res[1])])
      [] OTHER -> Page(<<>>)

\* ------------------------------------------------- databases explored
\* The application never writes; the database is whatever its owner put
\* there.  Primary keys are unique and not NULL.  Foreign keys may be NULL
\* or dangling: app.py never turns SQLite's foreign-key enforcement on.
\* Init draws the database from the families below, each of which varies
\* the tables of a few reports and leaves the others empty or fixed.

Building1 == [buildingId |-> 1, buildingName |-> 1]

StatusRows == {[roomStatusId |-> 1, status |-> "available"],
               [roomStatusId |-> 2, status |-> "occupied"]}

Type1 == [roomTypeId |-> 1, roomType |-> 1]

Type2 == [roomTypeId |-> 2, roomType |-> 2]

\* a second room_type row carrying the same name as Type1
Type2SameName == [roomTypeId |-> 2, roomType |-> 1]

Room(i, b, t, st) ==
    [roomId |-> i, roomNumber |-> 100 + i, buildingId |-> b,
     roomTypeId |-> t, roomStatusId |-> st]

Reservation(i, start, ticks) ==
    [reservationId |-> i, startDateTime |-> start, endDateTime |-> start + ticks]

\* room i absent, or present with a building and a status, without a
\* building, or without a status
RoomChoices(i) ==
    {{}} \cup {{Room(i, p[1], 1, p[2])} :
                  p \in {<<1, 1>>, <<1, 2>>, <<NULL, 1>>, <<1, NULL>>}}

RECURSIVE RoomTables(_)
RoomTables(n) ==
    IF n = 0 THEN {{}}
    ELSE {T \cup X : T \in RoomTables(n - 1), X \in RoomChoices(n)}

AtMostTwo(S) == {T \in SUBSET S : Cardinality(T) <= 2}

RoomFamily ==
    {[EmptyDB EXCEPT !.building = {Building1}, !.room_status = StatusRows,
                     !.room_type = {Type1}, !.room = rooms,
                     !.reservation = {Reservation(1, 0, TicksPerDay)},
                     !.reservation_room = rr] :
        rooms \in RoomTables(MaxRooms),
        rr \in SUBSET {[reservationId |-> 1, roomId |-> i] : i \in 1..MaxRooms}}

\* rooms of alternating type; reservation 1 of every length, the others of
\* a fixed one; reservation_room rows that may name a missing reservation
StayFamily ==
    {[EmptyDB EXCEPT !.building = {Building1}, !.room_status = StatusRows,
                     !.room_type = types,
                     !.room = {Room(i, 1, ((i - 1) % 2) + 1, 1) : i \in 1..MaxRooms},
                     !.reservation = {Reservation(1, 1, len)} \cup
                                     {Reservation(i, i, i) : i \in 2..MaxRes},
                     !.reservation_room = rr] :
        types \in {{Type1}, {Type1, Type2}, {Type1, Type2SameName}},
        len \in 1..MaxStay,
        rr \in AtMostTwo({[reservationId |-> r, roomId |-> i] :
                             r \in 1..(MaxRes + 1), i \in 1..MaxRooms})}

\* one reservation on each day of a set of days that is almost empty or
\* almost all of 1..MaxDays, at differing times of day, and optionally a
\* second reservation on the latest of them
DaySets == {S \in SUBSET (1..MaxDays) : Cardinality(S) <= 1 \/ Cardinality(S) >= MaxDays - 1}

LastDay(S) == CHOOSE x \in S : \A y \in S : y <= x

DayFamily ==
    {[EmptyDB EXCEPT !.reservation =
          {Reservation(day, day * TicksPerDay + (day % TicksPerDay), TicksPerDay) : day \in S}
          \cup (IF two /\ S # {}
                THEN {Reservation(MaxDays + 1, LastDay(S) * TicksPerDay, 1)}
                ELSE {})] :
        S \in DaySets, two \in BOOLEAN}

Bill(i, c, a) == [billingId |-> i, customerId |-> c, totalAmount |-> a]

BillingFamily ==
    {[EmptyDB EXCEPT !.customer = {[customerId |-> 1], [customerId |-> 2]},
                     !.billing = b1 \cup b2] :
        b1 \in {{}} \cup {{Bill(1, 1, a)} : a \in {NULL} \cup 0..MaxAmount},
        b2 \in {{}, {Bill(2, 1, 1)}, {Bill(2, 2, 2)}, {Bill(2, 2, NULL)}, {Bill(2, NULL, 1)}}}

StaffRows == {[staffId |-> 1, department |-> 1, isActive |-> 1],
              [staffId |-> 2, department |-> 2, isActive |-> 0],
              [staffId |-> 3, department |-> NULL, isActive |-> NULL]}

StaffFamily ==
    {[EmptyDB EXCEPT !.staff = st,
                     !.staff_card_assignment =
                         {[staffcardId |-> i, staffId |-> i] : i \in 1..3},
                     !.readers = {[readersId |-> 1, location |-> 1],
                                  [readersId |-> 2, location |-> 2]},
                     !.reading_info = ri] :
        st \in {{}, StaffRows},
        ri \in SUBSET {[readingId |-> 1, staffcardId |-> 1, readerID |-> 1],
                       [readingId |-> 2, staffcardId |-> 2, readerID |-> 2],
                       [readingId |-> 3, staffcardId |-> 1, readerID |-> 1],
                       [readingId |-> 4, staffcardId |-> 3, readerID |-> NULL]}}

RequestFamily ==
    {[EmptyDB EXCEPT !.customer_requests = cr,
                     !.transaction = tx] :
        cr \in SUBSET {[requestId |-> 1, depositStatus |-> "paid", resolved |-> "N"],
                       [requestId |-> 2, depositStatus |-> "unpaid", resolved |-> "N"],
                       [requestId |-> 3, depositStatus |-> "paid", resolved |-> "Y"]},
        tx \in {{}, {[transactionId |-> 1, amount |-> 1]}}}

EventFamily ==
    {[EmptyDB EXCEPT !.building = {Building1}, !.room_status = StatusRows,
                     !.room_type = {Type1},
                     !.room = {Room(1, 1, 1, 1), Room(2, 1, 1, 1)},
                     !.meeting_space = ms,
                     !.reservation = {Reservation(1, 0, TicksPerDay)},
                     !.reservation_room = rr,
                     !.event_reservation = er] :
        ms \in {{}, {[roomId |-> 1, spaceType |-> 1]},
                {[roomId |-> 1, spaceType |-> 1], [roomId |-> 2, spaceType |-> 2]},
                {[roomId |-> 1, spaceType |-> 1], [roomId |-> 2, spaceType |-> 1]}},
        rr \in SUBSET {[reservationId |-> 1, roomId |-> 1], [reservationId |-> 1, roomId |-> 2]},
        er \in SUBSET {[eventId |-> 1, reservationId |-> 1], [eventId |-> 2, reservationId |-> 1]}}

\* a database with rows in every table, with and without a NULL bill
FullDB(nullBill) ==
    [building |-> {Building1},
     room |-> {Room(1, 1, 1, 1), Room(2, 1, 2, 2)},
     room_type |-> {Type1, Type2},
     room_status |-> StatusRows,
     meeting_space |-> {[roomId |-> 2, spaceType |-> 1]},
     reservation |-> {Reservation(1, 1, TicksPerDay), Reservation(2, TicksPerDay, 1)},
     reservation_room |-> {[reservationId |-> 1, roomId |-> 2],
                           [reservationId |-> 2, roomId |-> 2]},
     event_reservation |-> {[eventId |-> 1, reservationId |-> 1]},
     billing |-> {Bill(1, 1, 1), Bill(2, 2, IF nullBill THEN NULL ELSE MaxAmount)},
     customer |-> {[customerId |-> 1], [customerId |-> 2]},
     staff |-> StaffRows,
     staff_card_assignment |-> {[staffcardId |-> i, staffId |-> i] : i \in 1..3},
     readers |-> {[readersId |-> 1, location |-> 1]},
     reading_info |-> {[readingId |-> 1, staffcardId |-> 1, readerID |-> 1],
                       [readingId |-> 2, staffcardId |-> 2, readerID |-> 1]},
     customer_requests |-> {[requestId |-> 1, depositStatus |-> "paid", resolved |-> "N"]},
     transaction |-> {[transactionId |-> 1, amount |-> 1]}]

\* the databases explored with requests served one after the other
Databases ==
    RoomFamily \cup StayFamily \cup DayFamily \cup BillingFamily \cup StaffFamily
        \cup RequestFamily \cup EventFamily \cup {FullDB(FALSE), FullDB(TRUE)}

\* the databases explored with requests served concurrently
ConcurrentDatabases == {EmptyDB, FullDB(FALSE), FullDB(TRUE)}

\* ------------------------------------------------------------------ state
\* app.run serves each request in a thread of its own.  A thread w has its
\* own locals and its own connection; the threads share the database file.
Threads == {"t1", "t2"}

VARIABLES
    db,        \* the database file's contents
    open,      \* the connections that are open
    pc,        \* pc[w]: where the request served by thread w is
    route,     \* route[w]: the route being served
    qi,        \* qi[w]: the index of the route's current query_db call
    conn,      \* conn[w]: query_db's conn
    cursor,    \* cursor[w]: the rows the executed statement selected
    retval,    \* retval[w]: query_db's return value
    exc,       \* exc[w]: the exception in flight
    results,   \* results[w]: the values the route's query_db calls returned
    response,  \* response[w]: the response to the thread's last finished request
    outcomes,  \* history: how each query_db call of the request ended
    connLog    \* history: the connections the request opened and closed

vars == <<db, open, pc, route, qi, conn, cursor, retval, exc, results, response,
          outcomes, connLog>>

NoConn == <<>>

NoResponse == [route |-> "none", kind |-> "none", ctx |-> <<>>]

\* the request-scoped state of thread w between two requests
IdleLocals(w) ==
    /\ route[w] = "none"
    /\ qi[w] = 0
    /\ conn[w] = NoConn
    /\ cursor[w] = <<>>
    /\ retval[w] = <<>>
    /\ exc[w] = "none"
    /\ results[w] = <<>>

InitThreads ==
    /\ open = {}
    /\ pc = [w \in Threads |-> "idle"]
    /\ route = [w \in Threads |-> "none"]
    /\ qi = [w \in Threads |-> 0]
    /\ conn = [w \in Threads |-> NoConn]
    /\ cursor = [w \in Threads |-> <<>>]
    /\ retval = [w \in Threads |-> <<>>]
    /\ exc = [w \in Threads |-> "none"]
    /\ results = [w \in Threads |-> <<>>]
    /\ response = [w \in Threads |-> NoResponse]
    /\ outcomes = [w \in Threads |-> <<>>]
    /\ connLog = [w \in Threads |-> <<>>]

Init == db \in Databases /\ InitThreads

InitConcurrent == db \in ConcurrentDatabases /\ InitThreads

CurrentQuery(w) == QueriesOf(route[w])[qi[w]]

\* a route function returns or raises: its frame is gone
EndRequest(w, resp) ==
    /\ response' = [response EXCEPT ![w] = resp]
    /\ pc' = [pc EXCEPT ![w] = "idle"]
    /\ route' = [route EXCEPT ![w] = "none"]
    /\ qi' = [qi EXCEPT ![w] = 0]
    /\ conn' = [conn EXCEPT ![w] = NoConn]
    /\ cursor' = [cursor EXCEPT ![w] = <<>>]
    /\ retval' = [retval EXCEPT ![w] = <<>>]
    /\ exc' = [exc EXCEPT ![w] = "none"]
    /\ results' = [results EXCEPT ![w] = <<>>]

\* home, signup, profile, confirmation, management_login, employee_login
StaticRoute(w) ==
    /\ pc[w] = "idle"
    /\ \E r \in StaticRoutes :
          EndRequest(w, [route |-> r, kind |-> "page", ctx |-> RouteBody(r, <<>>).ctx])
    /\ outcomes' = [outcomes EXCEPT ![w] = <<>>]
    /\ connLog' = [connLog EXCEPT ![w] = <<>>]
    /\ UNCHANGED <<db, open>>

\* a request arrives for a route that queries the database
BeginRoute(w) ==
    /\ pc[w] = "idle"
    /\ \E r \in QueryRoutes : route' = [route EXCEPT ![w] = r]
    /\ qi' = [qi EXCEPT ![w] = 1]
    /\ pc' = [pc EXCEPT ![w] = "connect"]
    /\ response' = [response EXCEPT ![w] = NoResponse]
    /\ results' = [results EXCEPT ![w] = <<>>]
    /\ outcomes' = [outcomes EXCEPT ![w] = <<>>]
    /\ connLog' = [connLog EXCEPT ![w] = <<>>]
    /\ UNCHANGED <<db, open, conn, cursor, retval, exc>>

\* query_db line 16, get_db_connection: sqlite3.connect returns a new
\* connection (it never returns None, so line 17's test is never true)
ConnectOk(w) ==
    /\ pc[w] = "connect"
    /\ conn' = [conn EXCEPT ![w] = <<w, qi[w]>>]
    /\ open' = open \cup {<<w, qi[w]>>}
    /\ connLog' = [connLog EXCEPT ![w] =
                      Append(@, [op |-> "open", call |-> qi[w], conn |-> <<w, qi[w]>>])]
    /\ pc' = [pc EXCEPT ![w] = "execute"]
    /\ UNCHANGED <<db, route, qi, cursor, retval, exc, results, response, outcomes>>

\* sqlite3.connect raises (the file cannot be opened): line 16 is outside
\* the try, so the error leaves query_db and the route
ConnectFail(w) ==
    /\ pc[w] = "connect"
    /\ exc' = [exc EXCEPT ![w] = "OperationalError"]
    /\ outcomes' = [outcomes EXCEPT ![w] = Append(@, "connect_failed")]
    /\ pc' = [pc EXCEPT ![w] = "propagate"]
    /\ UNCHANGED <<db, open, route, qi, conn, cursor, retval, results, response, connLog>>

\* lines 20-21: the statement runs
ExecuteOk(w) ==
    /\ pc[w] = "execute"
    /\ RunQuery(CurrentQuery(w), db).ok
    /\ cursor' = [cursor EXCEPT ![w] = RunQuery(CurrentQuery(w), db).rows]
    /\ db' = DbAfterExecute(CurrentQuery(w), db)
    /\ pc' = [pc EXCEPT ![w] = "fetch"]
    /\ UNCHANGED <<open, route, qi, conn, retval, exc, results, response, outcomes, connLog>>

\* line 21 raises sqlite3.Error: the statement is in error, or the database
\* is (a missing table, a locked or corrupt file)
ExecuteError(w) ==
    /\ pc[w] = "execute"
    /\ pc' = [pc EXCEPT ![w] = "except"]
    /\ UNCHANGED <<db, open, route, qi, conn, cursor, retval, exc, results, response,
                   outcomes, connLog>>

\* lines 22-25: the rows are fetched and converted, and the value is set
FetchOk(w) ==
    /\ pc[w] = "fetch"
    /\ retval' = [retval EXCEPT ![w] = QueryDbReturn(cursor[w], OneOf(CurrentQuery(w)))]
    /\ outcomes' = [outcomes EXCEPT ![w] = Append(@, "ok")]
    /\ pc' = [pc EXCEPT ![w] = "finally"]
    /\ UNCHANGED <<db, open, route, qi, conn, cursor, exc, results, response, connLog>>

\* line 22 raises sqlite3.Error
FetchError(w) ==
    /\ pc[w] = "fetch"
    /\ pc' = [pc EXCEPT ![w] = "except"]
    /\ UNCHANGED <<db, open, route, qi, conn, cursor, retval, exc, results, response,
                   outcomes, connLog>>

\* lines 22-25 raise something that is no sqlite3.Error (MemoryError while
\* the rows are copied): no except clause matches
FetchOtherError(w) ==
    /\ pc[w] = "fetch"
    /\ exc' = [exc EXCEPT ![w] = "MemoryError"]
    /\ outcomes' = [outcomes EXCEPT ![w] = Append(@, "other_error")]
    /\ pc' = [pc EXCEPT ![w] = "finally"]
    /\ UNCHANGED <<db, open, route, qi, conn, cursor, retval, results, response, connLog>>

\* lines 26-28: the database error is printed and the empty value is set
ExceptSqliteError(w) ==
    /\ pc[w] = "except"
    /\ retval' = [retval EXCEPT ![w] = EmptyResult(OneOf(CurrentQuery(w)))]
    /\ outcomes' = [outcomes EXCEPT ![w] = Append(@, "sql_error")]
    /\ pc' = [pc EXCEPT ![w] = "finally"]
    /\ UNCHANGED <<db, open, route, qi, conn, cursor, exc, results, response, connLog>>

\* the connections open after conn.close()
CloseConn_Skipped(c, o) == o

CloseConn(c, o) == o \ {c}

\* lines 29-30, then query_db returns to the route
FinallyReturn(w) ==
    /\ pc[w] = "finally"
    /\ exc[w] = "none"
    /\ open' = CloseConn(conn[w], open)
    /\ connLog' = [connLog EXCEPT ![w] =
                      Append(@, [op |-> "close", call |-> qi[w], conn |-> conn[w]])]
    /\ conn' = [conn EXCEPT ![w] = NoConn]
    /\ cursor' = [cursor EXCEPT ![w] = <<>>]
    /\ retval' = [retval EXCEPT ![w] = <<>>]
    /\ results' = [results EXCEPT ![w] = Append(@, retval[w])]
    /\ IF qi[w] < Len(QueriesOf(route[w]))
       THEN qi' = [qi EXCEPT ![w] = @ + 1] /\ pc' = [pc EXCEPT ![w] = "connect"]
       ELSE qi' = qi /\ pc' = [pc EXCEPT ![w] = "body"]
    /\ UNCHANGED <<db, route, exc, response, outcomes>>

\* lines 29-30, then the exception leaves query_db
FinallyRaise(w) ==
    /\ pc[w] = "finally"
    /\ exc[w] # "none"
    /\ open' = CloseConn(conn[w], open)
    /\ connLog' = [connLog EXCEPT ![w] =
                      Append(@, [op |-> "close", call |-> qi[w], conn |-> conn[w]])]
    /\ conn' = [conn EXCEPT ![w] = NoConn]
    /\ cursor' = [cursor EXCEPT ![w] = <<>>]
    /\ pc' = [pc EXCEPT ![w] = "propagate"]
    /\ UNCHANGED <<db, route, qi, retval, exc, results, response, outcomes>>

\* the route derives its statistics and renders its template
RenderPage(w) ==
    /\ pc[w] = "body"
    /\ RouteBody(route[w], results[w]).ok
    /\ EndRequest(w, [route |-> route[w], kind |-> "page",
                      ctx |-> RouteBody(route[w], results[w]).ctx])
    /\ UNCHANGED <<db, open, outcomes, connLog>>

\* deriving a statistic raises TypeError
RouteRaises(w) ==
    /\ pc[w] = "body"
    /\ ~RouteBody(route[w], results[w]).ok
    /\ exc' = [exc EXCEPT ![w] = "TypeError"]
    /\ pc' = [pc EXCEPT ![w] = "propagate"]
    /\ UNCHANGED <<db, open, route, qi, conn, cursor, retval, results, response,
                   outcomes, connLog>>

\* handle_error: the generic error page
HandleError(w) ==
    /\ pc[w] = "propagate"
    /\ EndRequest(w, [route |-> route[w], kind |-> "error", ctx |-> [error |-> exc[w]]])
    /\ UNCHANGED <<db, open, outcomes, connLog>>

\* a step of the request served by thread w
Step(w) ==
    \/ StaticRoute(w)
    \/ BeginRoute(w)
    \/ ConnectOk(w)
    \/ ConnectFail(w)
    \/ ExecuteOk(w)
    \/ ExecuteError(w)
    \/ FetchOk(w)
    \/ FetchError(w)
    \/ FetchOtherError(w)
    \/ ExceptSqliteError(w)
    \/ FinallyReturn(w)
    \/ FinallyRaise(w)
    \/ RenderPage(w)
    \/ RouteRaises(w)
    \/ HandleError(w)

\* requests served one after the other
Next == Step("t1")

\* requests served concurrently
NextConcurrent == \E w \in Threads : Step(w)

Spec == Init /\ [][Next]_vars

SpecConcurrent == InitConcurrent /\ [][NextConcurrent]_vars

\* ================================================================ claims
\* the request of thread w to route r has finished and its response is at hand
Done(w, r) == pc[w] = "idle" /\ response[w].route = r

\* every query_db call of w's request ran its statement and returned rows
AllOk(w) == \A i \in 1..Len(outcomes[w]) : outcomes[w][i] = "ok"

\* every query_db call of w's request returned a value
NoCallRaised(w) == \A i \in 1..Len(outcomes[w]) : outcomes[w][i] \in {"ok", "sql_error"}

\* the query_db calls of w's request that have ended
ReturnedCalls(w) ==
    IF pc[w] = "finally" THEN 1..(Len(outcomes[w]) - 1) ELSE 1..Len(outcomes[w])

\* the totals of route r's page are all zero
ZeroTotals(r, ctx) ==
    CASE r = "guest_rooms" -> ctx.total_rooms = 0
      [] r = "meeting_spaces_page" -> ctx.total_spaces = 0
      [] r = "my_reservations" -> ctx.total_reservations = 0
      [] r = "staff_roster" -> ctx.total_staff = 0 /\ ctx.active_staff = 0
      [] r = "card_management" ->
            ctx.total_swipes = 0 /\ ctx.departments = 0 /\ ctx.locations = 0
      [] r = "employee_rooms" ->
            ctx.total_requests = 0 /\ ctx.total_bookings = 0 /\ ctx.total_events = 0
      [] r = "employee_customer_cards" -> ctx.total_customers = 0 /\ ctx.total_revenue = 0
      [] r = "employee_room_list" -> ctx.total_rooms = 0 /\ ctx.available_rooms = 0
      [] r = "employee_reservations_page" ->
            ctx.total_reservations = 0 /\ ctx.total_days = 0 /\ ctx.avg_per_day.num = 0
      [] r = "employee_revenue" ->
            ctx.total_revenue = 0 /\ ctx.total_transactions = 0 /\ ctx.months_tracked = 0
      [] r = "rooms_never_reserved" -> ctx.total_unused = 0
      [] OTHER -> TRUE

\* the collections of route r's page are all empty
EmptyCollections(r, ctx) ==
    CASE r = "account" -> ctx.reservations = <<>>
      [] r = "guest_rooms" -> ctx.available_rooms = <<>>
      [] r = "meeting_spaces_page" -> ctx.meeting_spaces = <<>>
      [] r = "my_reservations" -> ctx.reservations = <<>>
      [] r = "book" -> ctx.all_types = <<>>
      [] r = "staff_roster" -> ctx.staff = <<>>
      [] r = "card_management" -> ctx.staff_cards = <<>>
      [] r = "employee_rooms" ->
            ctx.forum_posts = <<>> /\ ctx.room_types = <<>> /\ ctx.meeting_spaces_events = <<>>
      [] r = "employee_customer_cards" -> ctx.customer_cards = <<>>
      [] r = "employee_room_list" -> ctx.rooms = <<>>
      [] r = "employee_reservations_page" -> ctx.reservations = <<>>
      [] r = "employee_revenue" -> ctx.revenue = <<>>
      [] r = "rooms_never_reserved" -> ctx.rooms = <<>>

\* ---------------------------------------------------------------- C1
\* C1: query_db never raises to its caller: whatever fails while it serves
\* a query (opening the connection, executing, fetching or converting), it
\* returns the empty value, so no call of a request ends by raising.
C1_QueryDbNeverRaises ==
    \A w \in Threads :
        /\ NoCallRaised(w)
        /\ (pc[w] = "propagate" => exc[w] = "TypeError")

\* ---------------------------------------------------------------- C2
\* C2: with the database unreachable or erroring (every query_db call of
\* the request failed), every querying route still returns its own page,
\* with every collection empty and every derived statistic zero.
C2_PageDespiteDbFailure ==
    \A w \in Threads :
        (/\ pc[w] = "idle"
         /\ response[w].route \in QueryRoutes
         /\ \A i \in 1..Len(outcomes[w]) :
               outcomes[w][i] \in {"connect_failed", "sql_error"})
        => /\ response[w].kind = "page"
           /\ EmptyCollections(response[w].route, response[w].ctx)
           /\ ZeroTotals(response[w].route, response[w].ctx)

\* ---------------------------------------------------------------- C3
Opens(w, c) ==
    {i \in 1..Len(connLog[w]) : connLog[w][i].op = "open" /\ connLog[w][i].call = c}

Closes(w, c) ==
    {i \in 1..Len(connLog[w]) : connLog[w][i].op = "close" /\ connLog[w][i].call = c}

\* the connections open that thread w opened
OpenOf(w) == {c \in open : c[1] = w}

\* C3, as claimed: no connection of a finished request is open, and every
\* query_db call opened exactly one connection and closed that connection
\* exactly once.
C3_ExactlyOnePerCall ==
    \A w \in Threads :
        /\ (pc[w] = "idle" => OpenOf(w) = {})
        /\ \A c \in ReturnedCalls(w) :
              /\ Cardinality(Opens(w, c)) = 1
              /\ Cardinality(Closes(w, c)) = 1
              /\ \A i \in Opens(w, c), j \in Closes(w, c) :
                    i < j /\ connLog[w][i].conn = connLog[w][j].conn

\* C3, amended: a request has no connection open once a query_db call of
\* it has ended (so none when it returns), whatever the other requests do,
\* and every ended call opened exactly one connection and closed that
\* connection exactly once, unless opening it failed, in which case it
\* opened and closed none.
C3_ConnectionsReleased ==
    \A w \in Threads :
        /\ (pc[w] \in {"idle", "connect", "body", "propagate"} => OpenOf(w) = {})
        /\ \A c \in ReturnedCalls(w) :
              /\ Cardinality(Opens(w, c)) =
                     (IF outcomes[w][c] = "connect_failed" THEN 0 ELSE 1)
              /\ Cardinality(Closes(w, c)) = Cardinality(Opens(w, c))
              /\ \A i \in Opens(w, c), j \in Closes(w, c) :
                    i < j /\ connLog[w][i].conn = connLog[w][j].conn

\* a finished request of three queries (a success, a database error, an
\* exception that is no database error) while another request holds a
\* connection
C3_Witness ==
    /\ Done("t1", "employee_rooms")
    /\ outcomes["t1"] = <<"ok", "sql_error", "other_error">>
    /\ Len(connLog["t1"]) = 6
    /\ pc["t2"] = "fetch"
    /\ open # {}

\* ---------------------------------------------------------------- C4
RoomNumbers(rows) == {rows[i].roomNumber : i \in 1..Len(rows)}

Reserved(d) == {rm \in d.room : \E rr \in d.reservation_room : rr.roomId = rm.roomId}

HasBuilding(rm, d) == \E b \in d.building : b.buildingId = rm.buildingId

\* C4, as claimed: the report lists exactly the rows of room minus the rooms
\* whose roomId is in some reservation_room row, and total_unused is the
\* size of that set.
C4_ExactSetDifference ==
    \A w \in Threads :
        (Done(w, "rooms_never_reserved") /\ AllOk(w) /\ response[w].kind = "page")
        => LET unused == db.room \ Reserved(db)
           IN  /\ RoomNumbers(response[w].ctx.rooms) = {rm.roomNumber : rm \in unused}
               /\ Len(response[w].ctx.rooms) = Cardinality(unused)
               /\ response[w].ctx.total_unused = Cardinality(unused)

\* C4, amended: the report lists exactly the rows of room that reference a
\* building row, minus the rooms whose roomId is in some reservation_room
\* row, and total_unused is the size of that set.
C4_SetDifferenceOfHousedRooms ==
    \A w \in Threads :
        (Done(w, "rooms_never_reserved") /\ AllOk(w))
        => LET unused == {rm \in db.room : HasBuilding(rm, db)} \ Reserved(db)
           IN  /\ response[w].kind = "page"
               /\ RoomNumbers(response[w].ctx.rooms) = {rm.roomNumber : rm \in unused}
               /\ Len(response[w].ctx.rooms) = Cardinality(unused)
               /\ response[w].ctx.total_unused = Cardinality(unused)

\* a report that lists one room and leaves out an unreserved room that
\* has no building
C4_Witness ==
    /\ Done("t1", "rooms_never_reserved") /\ AllOk("t1")
    /\ response["t1"].ctx.total_unused = 1
    /\ \E rm \in db.room \ Reserved(db) : ~HasBuilding(rm, db)

\* ---------------------------------------------------------------- C5
\* C5: every total derived from row data equals the sum of that field over
\* the returned rows, also when the field is NULL in some row, and the
\* request does not fail.
C5_TotalsAreSums ==
    \A w \in Threads :
        (pc[w] = "idle" /\ AllOk(w))
        => LET r == response[w].route
               ctx == response[w].ctx
               page == response[w].kind = "page"
           IN  /\ r = "card_management" =>
                     /\ page
                     /\ ctx.total_swipes = SumSeq(Column(ctx.staff_cards, "staff_swipes"))
               /\ r = "employee_rooms" =>
                     /\ page
                     /\ ctx.total_requests = SumSeq(Column(ctx.forum_posts, "open_requests"))
                     /\ ctx.total_bookings =
                            SumSeq(Column(ctx.room_types, "num_room_bookings"))
                     /\ ctx.total_events =
                            SumSeq(Column(ctx.meeting_spaces_events, "events_count"))
               /\ r = "employee_customer_cards" =>
                     /\ page
                     /\ ctx.total_revenue = SumSeq(Column(ctx.customer_cards, "total_billed"))
               /\ r = "employee_room_list" =>
                     /\ page
                     /\ ctx.total_rooms = SumSeq(Column(ctx.rooms, "num_rooms"))
               /\ r = "employee_reservations_page" =>
                     /\ page
                     /\ ctx.total_reservations =
                            SumSeq(Column(ctx.reservations, "num_reservations"))
               /\ r = "employee_revenue" =>
                     /\ page
                     /\ ctx.total_revenue = SumSeq(Column(ctx.revenue, "total_revenue"))
                     /\ ctx.total_transactions = SumSeq(Column(ctx.revenue, "num_tx"))

\* ---------------------------------------------------------------- C6
HasStatus(rm, d) == \E rs \in d.room_status : rs.roomStatusId = rm.roomStatusId

HasAvailableStatus(rm, d) ==
    \E rs \in d.room_status : rs.roomStatusId = rm.roomStatusId /\ rs.status = "available"

\* C6, as claimed: available_rooms is the number of room rows that reference
\* a room_status row whose status is 'available', and total_rooms the
\* number of room rows that reference some room_status row.
C6_CountsByStatus ==
    \A w \in Threads :
        (Done(w, "employee_room_list") /\ AllOk(w) /\ response[w].kind = "page")
        => /\ response[w].ctx.available_rooms =
                  Cardinality({rm \in db.room : HasAvailableStatus(rm, db)})
           /\ response[w].ctx.total_rooms =
                  Cardinality({rm \in db.room : HasStatus(rm, db)})

\* C6, amended: the same counts over the room rows that also reference a
\* building row; one room_status row 'available' with two such rooms
\* referencing it gives available_rooms = 2.
C6_CountsOfHousedRooms ==
    \A w \in Threads :
        (Done(w, "employee_room_list") /\ AllOk(w))
        => /\ response[w].kind = "page"
           /\ response[w].ctx.available_rooms =
                  Cardinality({rm \in db.room :
                                  HasBuilding(rm, db) /\ HasAvailableStatus(rm, db)})
           /\ response[w].ctx.total_rooms =
                  Cardinality({rm \in db.room : HasBuilding(rm, db) /\ HasStatus(rm, db)})

\* the example: two rooms referencing the one 'available' status row
C6_Witness ==
    /\ Done("t1", "employee_room_list") /\ AllOk("t1")
    /\ Cardinality({rm \in db.room : HasBuilding(rm, db) /\ HasAvailableStatus(rm, db)}) = 2
    /\ response["t1"].ctx.available_rooms = 2

\* ---------------------------------------------------------------- C7
\* the tables that route r's statements select FROM
UnderlyingTables(r) ==
    CASE r \in {"account", "employee_customer_cards"} -> {"billing"}
      [] r = "guest_rooms" -> {"room"}
      [] r = "meeting_spaces_page" -> {"meeting_space"}
      [] r \in {"my_reservations", "employee_reservations_page"} -> {"reservation"}
      [] r = "book" -> {"room_type", "meeting_space"}
      [] r = "staff_roster" -> {"staff"}
      [] r = "card_management" -> {"reading_info"}
      [] r = "employee_rooms" -> {"customer_requests", "room_type", "meeting_space"}
      [] r \in {"employee_room_list", "rooms_never_reserved"} -> {"building"}
      [] r = "employee_revenue" -> {"transaction"}

\* C7: when the tables a report selects from are empty, every total the
\* report computes is zero and the request does not fail; avg_per_day of
\* employee_reservations_page is 0, not a division by zero.  (Of requests
\* whose query_db calls returned.)
C7_EmptyTablesGiveZero ==
    \A w \in Threads :
        (/\ pc[w] = "idle"
         /\ response[w].route \in QueryRoutes
         /\ NoCallRaised(w)
         /\ \A t \in UnderlyingTables(response[w].route) : db[t] = {})
        => /\ response[w].kind = "page"
           /\ EmptyCollections(response[w].route, response[w].ctx)
           /\ ZeroTotals(response[w].route, response[w].ctx)

\* the reservations report over an empty reservation table, its statement
\* having run, in a database that holds other rows
C7_Witness ==
    /\ Done("t1", "employee_reservations_page") /\ AllOk("t1")
    /\ db.reservation = {}
    /\ db.customer # {}
    /\ response["t1"].ctx.avg_per_day.num = 0

\* ---------------------------------------------------------------- C8
\* the reservation_room join rows for rooms of the type named n
StayRows(n, d) ==
    {p \in d.room \X d.reservation_room \X d.reservation :
        /\ \E rt \in d.room_type : rt.roomTypeId = p[1].roomTypeId /\ rt.roomType = n
        /\ p[2].roomId = p[1].roomId
        /\ p[3].reservationId = p[2].reservationId}

TypeNames(d) == {rt.roomType : rt \in d.room_type}

\* C8: in the average-stay report every returned room type has
\* num_room_bookings equal to the number of its reservation_room join rows
\* and avg_nights equal to the mean of end minus start, in days, over those
\* rows; a type with no booking has no row; total_bookings is the number of
\* all join rows.
C8_AverageStay ==
    \A w \in Threads :
        (/\ Done(w, "employee_rooms")
         /\ Len(outcomes[w]) = 3 /\ outcomes[w][2] = "ok" /\ NoCallRaised(w))
        => LET rows == response[w].ctx.room_types
               names == {rows[i].roomType : i \in 1..Len(rows)}
           IN  /\ response[w].kind = "page"
               /\ names = {n \in TypeNames(db) : StayRows(n, db) # {}}
               /\ Len(rows) = Cardinality(names)
               /\ \A i \in 1..Len(rows) :
                     LET J == StayRows(rows[i].roomType, db)
                         ticks == SumOver(J, [p \in J |->
                                      p[3].endDateTime - p[3].startDateTime])
                     IN  /\ rows[i].num_room_bookings = Cardinality(J)
                         \* avg_nights = (ticks / TicksPerDay) / |J|
                         /\ rows[i].avg_nights.den > 0
                         /\ rows[i].avg_nights.num * TicksPerDay * Cardinality(J)
                                = ticks * rows[i].avg_nights.den
               /\ response[w].ctx.total_bookings =
                      Cardinality(UNION {StayRows(n, db) : n \in TypeNames(db)})

\* a report with a type booked twice (stays of different lengths) while
\* another type has no booking
C8_Witness ==
    /\ Done("t1", "employee_rooms") /\ AllOk("t1")
    /\ Cardinality(TypeNames(db)) = 2
    /\ Len(response["t1"].ctx.room_types) = 1
    /\ response["t1"].ctx.room_types[1].num_room_bookings = 2
    /\ \E p, q \in StayRows(response["t1"].ctx.room_types[1].roomType, db) :
          p[3].endDateTime - p[3].startDateTime # q[3].endDateTime - q[3].startDateTime

\* ---------------------------------------------------------------- C9
\* the response a route gives as a function of the route and the database
PureResponse(r, d) ==
    LET body == RouteBody(r, [i \in 1..Len(QueriesOf(r)) |->
                                 RunQuery(QueriesOf(r)[i], d).rows])
    IN  IF body.ok THEN [route |-> r, kind |-> "page", ctx |-> body.ctx]
        ELSE [route |-> r, kind |-> "error", ctx |-> [error |-> "TypeError"]]

\* C9: no step of any request, in any interleaving with the steps of
\* another and failed queries included, changes a table; nothing of a
\* request outlives it; and the response of a request whose statements ran
\* depends only on its route and the database.
C9_NoWritePath ==
    [][/\ db' = db
       /\ \A w \in Threads :
             /\ pc'[w] = "idle" => IdleLocals(w)'
             /\ (/\ pc'[w] = "idle" /\ pc[w] # "idle"
                 /\ AllOk(w)'
                 /\ response'[w].route \in QueryRoutes)
                => response'[w] = PureResponse(response'[w].route, db)]_vars

\* a request of several queries, one of which failed, has finished on a
\* database that holds rows, while another request is being served
C9_Witness ==
    /\ Done("t1", "employee_rooms")
    /\ outcomes["t1"] = <<"ok", "sql_error", "ok">>
    /\ db.reservation_room # {}
    /\ response["t1"].ctx.total_events > 0
    /\ pc["t2"] = "finally"
    /\ route["t2"] = "employee_customer_cards"

\* --------------------------------------------------------------- C10
CheckInDays(d) == {DateOf(r.startDateTime) : r \in d.reservation}

StartingOn(day, d) == {r \in d.reservation : DateOf(r.startDateTime) = day}

RowDays(rows) == {rows[i].day : i \in 1..Len(rows)}

\* C10: my_reservations returns one row per distinct check-in day with the
\* number of reservations starting that day, windowed to the latest 10:
\* min(10, days) rows, descending, no omitted day later than a returned
\* one; employee_reservations_page returns every distinct check-in day in
\* ascending order.
C10_ReservationsPerDay ==
    \A w \in Threads :
        /\ (Done(w, "my_reservations") /\ AllOk(w))
           => LET rows == response[w].ctx.reservations
              IN  /\ response[w].kind = "page"
                  /\ Len(rows) = Min2(Limit, Cardinality(CheckInDays(db)))
                  /\ RowDays(rows) \subseteq CheckInDays(db)
                  /\ \A i \in 1..Len(rows) :
                        rows[i].num_reservations = Cardinality(StartingOn(rows[i].day, db))
                  /\ \A i, j \in 1..Len(rows) : i < j => rows[i].day > rows[j].day
                  /\ \A day \in CheckInDays(db) \ RowDays(rows) :
                        \A i \in 1..Len(rows) : day < rows[i].day
        /\ (Done(w, "employee_reservations_page") /\ AllOk(w))
           => LET rows == response[w].ctx.reservations
              IN  /\ response[w].kind = "page"
                  /\ RowDays(rows) = CheckInDays(db)
                  /\ \A i \in 1..Len(rows) :
                        rows[i].num_reservations = Cardinality(StartingOn(rows[i].day, db))
                  /\ \A i, j \in 1..Len(rows) : i < j => rows[i].day < rows[j].day

\* more than 10 check-in days, two reservations on the latest: the window
\* cuts the earliest day off
C10_Witness ==
    /\ Done("t1", "my_reservations") /\ AllOk("t1")
    /\ Cardinality(CheckInDays(db)) > Limit
    /\ Len(response["t1"].ctx.reservations) = Limit
    /\ response["t1"].ctx.reservations[1].num_reservations = 2

====
